---- MODULE Spec2Model ----
(***************************************************************************)
(* Model of src/src/index.ts: the Builder class of mock-builder.           *)
(*                                                                         *)
(* A JavaScript value is a tagged record: a number, undefined, or a        *)
(* function.  Functions are the user's thunks (identified by name, with    *)
(* an invocation counter that is the thunk's own state) and the closures   *)
(* the Builder creates in withValue, setConditionalValue and mapValue.     *)
(* A shape is the ordered list of the own enumerable entries of the        *)
(* object (Object.entries order).  Builder objects live in a heap, a       *)
(* sequence indexed by object identity.                                    *)
(***************************************************************************)
EXTENDS Integers, Sequences, FiniteSets, TLC

(* ---------------------------- bounds ----------------------------------- *)
MaxBuilders == 2
MaxCount == 2
MaxCalls == 3
RandDen == 2

(* ------------------------- JavaScript values --------------------------- *)
Undefined == [t |-> "undefined"]

Num(n) == [t |-> "num", n |-> n]

UserFn(id) == [t |-> "fn", f |-> "user", id |-> id]

IsFunction(v) == v.t = "fn"

\* the user's thunks: a stateful counter (let c = 0; () => ++c), the
\* stateless thunk () => 2 of index.spec.ts, and a thunk that throws
ThunkIds == {"counter", "two", "boom"}

StatefulIds == {"counter"}

ThrowingIds == {"boom"}

\* the user's mapping functions: x => x + 1 and x => x * 2 on numbers,
\* any other value is passed through
MapFnIds == {"inc", "dbl"}

\* a mapping function that throws
ThrowingMapFnIds == {"fail"}

\* the functions of the user whose invocations are counted: the stateful
\* thunks, whose return value depends on the count, and the mapping
\* functions
CountedIds == StatefulIds \cup MapFnIds \cup ThrowingMapFnIds

Keys == {"id", "name"}

ArgValues == {Num(2), UserFn("counter")}

\* the body of a user thunk: the return value, given the number of
\* invocations made so far including this one
UserThunkBody(id, n) == IF id = "counter" THEN Num(n) ELSE Num(2)

MapFnBody(m, x) ==
  IF x.t = "num"
    THEN IF m = "inc" THEN Num(x.n + 1) ELSE Num(x.n * 2)
    ELSE x

(* ------------------------------ shapes --------------------------------- *)
Entry(k, v) == [key |-> k, value |-> v]

ShapeKeys(shape) == {shape[i].key : i \in 1..Len(shape)}

HasKey(shape, k) == k \in ShapeKeys(shape)

IndexOf(shape, k) == CHOOSE i \in 1..Len(shape) : shape[i].key = k

\* shape[prop]: undefined when the key is absent
ShapeGet(shape, k) == IF HasKey(shape, k) THEN shape[IndexOf(shape, k)].value ELSE Undefined

\* { ...shape, [prop]: v }: an existing key keeps its position, a new one
\* is appended
AssignKey(shape, k, v) ==
  IF HasKey(shape, k)
    THEN [shape EXCEPT ![IndexOf(shape, k)].value = v]
    ELSE Append(shape, Entry(k, v))

\* { ...a, ...b }
RECURSIVE SpreadInto(_, _)
SpreadInto(a, b) ==
  IF b = <<>> THEN a
  ELSE SpreadInto(AssignKey(a, Head(b).key, Head(b).value), Tail(b))

(* --------------------------- invoking thunks --------------------------- *)
\* the closures the Builder creates
WithValueFn(value) == [t |-> "fn", f |-> "withValue", value |-> value]

ConditionalFn(condition, trueValue, falseValue) ==
  [t |-> "fn", f |-> "setConditionalValue", condition |-> condition,
   trueValue |-> trueValue, falseValue |-> falseValue]

MapValueFn(original, mapFn) ==
  [t |-> "fn", f |-> "mapValue", original |-> original, mapFn |-> mapFn]

\* the two ways a call ends: it returns a value, or it throws; err is the
\* thrown error, named after the function that threw it
NoError == "none"

Return(val, inv) == [val |-> val, inv |-> inv, err |-> NoError]

Throw(e, inv) == [val |-> Undefined, inv |-> inv, err |-> e]

\* Calling a function with no arguments.  inv counts the invocations of
\* the user's stateful thunks and mapping functions; the result is the
\* returned value (or the error thrown) and the new counts.
RECURSIVE Invoke(_, _)
Invoke(fn, inv) ==
  CASE fn.f = "user" ->
         IF fn.id \in ThrowingIds THEN Throw(fn.id, inv)
         ELSE IF fn.id \in StatefulIds
           THEN LET n == inv[fn.id] + 1
                IN  Return(UserThunkBody(fn.id, n), [inv EXCEPT ![fn.id] = n])
           ELSE Return(UserThunkBody(fn.id, 0), inv)
    [] fn.f = "withValue" ->
         Return(fn.value, inv)
    [] fn.f = "setConditionalValue" ->
         Return(IF fn.condition THEN fn.trueValue ELSE fn.falseValue, inv)
    [] fn.f = "mapValue" ->
         LET resolveValue == IF IsFunction(fn.original)
                               THEN Invoke(fn.original, inv)
                               ELSE Return(fn.original, inv)
             called == [resolveValue.inv EXCEPT ![fn.mapFn] = @ + 1]
         IN  IF resolveValue.err # NoError THEN resolveValue
             ELSE IF fn.mapFn \in ThrowingMapFnIds THEN Throw(fn.mapFn, called)
             ELSE Return(MapFnBody(fn.mapFn, resolveValue.val), called)

(* ------------------------------- build --------------------------------- *)
\* the thunk called twice per entry, as by value() !== undefined ? value() : ...
ResolveEntryTwice(value, inv) ==
  IF IsFunction(value)
    THEN IF Invoke(value, inv).err # NoError THEN Invoke(value, inv)
         ELSE Invoke(value, Invoke(value, inv).inv)
    ELSE Return(value, inv)

\* the binding stored as it is, callable or not: acc[key] = value
ResolveEntryLiteral(value, inv) == Return(value, inv)

\* typeof value === "function" ? value() : value
ResolveEntry(value, inv) ==
  IF IsFunction(value) THEN Invoke(value, inv) ELSE Return(value, inv)

\* acc[key] = v
SetProp(acc, k, v) == [x \in (DOMAIN acc) \cup {k} |-> IF x = k THEN v ELSE acc[x]]

EmptyObject == [x \in {} |-> Undefined]

\* the reducer returning a fresh object instead of the accumulator
RECURSIVE ReduceEntriesFresh(_, _, _, _)
ReduceEntriesFresh(shape, i, acc, inv) ==
  IF i > Len(shape) THEN [data |-> acc, inv |-> inv, err |-> NoError]
  ELSE LET r == ResolveEntry(shape[i].value, inv)
       IN  IF r.err # NoError THEN [data |-> Undefined, inv |-> r.inv, err |-> r.err]
           ELSE ReduceEntriesFresh(shape, i + 1, SetProp(EmptyObject, shape[i].key, r.val), r.inv)

\* the reducer catching what a thunk throws and leaving the key undefined
RECURSIVE ReduceEntriesCatch(_, _, _, _)
ReduceEntriesCatch(shape, i, acc, inv) ==
  IF i > Len(shape) THEN [data |-> acc, inv |-> inv, err |-> NoError]
  ELSE LET r == ResolveEntry(shape[i].value, inv)
       IN  ReduceEntriesCatch(shape, i + 1, SetProp(acc, shape[i].key, r.val), r.inv)

\* Object.entries(this._shape).reduce(..., {}): the entries from index i on;
\* a throw leaves the reduction, and no object is returned
RECURSIVE ReduceEntries(_, _, _, _)
ReduceEntries(shape, i, acc, inv) ==
  IF i > Len(shape) THEN [data |-> acc, inv |-> inv, err |-> NoError]
  ELSE LET r == ResolveEntry(shape[i].value, inv)
       IN  IF r.err # NoError THEN [data |-> Undefined, inv |-> r.inv, err |-> r.err]
           ELSE ReduceEntries(shape, i + 1, SetProp(acc, shape[i].key, r.val), r.inv)

buildSingle(shape, inv) == ReduceEntries(shape, 1, EmptyObject, inv)

\* Math.floor(Math.random() * (max - min + 1)) + min, Math.random() being
\* rnd / RandDen, a value of [0, 1)
getRandomInt(min, max, rnd) == ((rnd * (max - min + 1)) \div RandDen) + min

\* the count argument of build: absent, a number, or an object
NoCount == Undefined

RangeCount(min, max) == [t |-> "object", min |-> min, max |-> max]

\* the count taken by truthiness (count || 1) instead of by its type
entitiesCountTruthy(count, rnd) ==
  IF count.t = "num" /\ count.n # 0 THEN count.n
  ELSE IF count.t = "object" /\ count.min # Undefined /\ count.max # Undefined
    THEN getRandomInt(count.min.n, count.max.n, rnd)
    ELSE 1

entitiesCount(count, rnd) ==
  IF count.t = "num" THEN count.n
  ELSE IF count.t = "object" /\ count.min # Undefined /\ count.max # Undefined
    THEN getRandomInt(count.min.n, count.max.n, rnd)
    ELSE 1

\* one instance built and pushed n times, as by Array(n).fill(this.buildSingle())
BuildLoopFill(shape, i, n, entities, inv) ==
  LET r == buildSingle(shape, inv)
  IN  IF r.err # NoError THEN [entities |-> <<>>, inv |-> r.inv, err |-> r.err]
      ELSE [entities |-> [j \in 1..(IF n > 0 THEN n ELSE 0) |-> r.data],
            inv |-> r.inv, err |-> NoError]

\* for (let i = 0; i < entitiesCount; i++) entities.push(this.buildSingle());
\* a throw leaves the loop, and the array is not returned
RECURSIVE BuildLoop(_, _, _, _, _)
BuildLoop(shape, i, n, entities, inv) ==
  IF i >= n THEN [entities |-> entities, inv |-> inv, err |-> NoError]
  ELSE LET r == buildSingle(shape, inv)
       IN  IF r.err # NoError THEN [entities |-> <<>>, inv |-> r.inv, err |-> r.err]
           ELSE BuildLoop(shape, i + 1, n, Append(entities, r.data), r.inv)

\* what build leaves when it throws: no value is returned
BuildThrow(r) == [isArray |-> FALSE, value |-> Undefined, inv |-> r.inv, err |-> r.err]

\* build returning the bare instance only when no count is given
buildBareWithoutCount(shape, count, rnd, inv) ==
  LET n == entitiesCount(count, rnd)
  IN  IF count = NoCount
        THEN LET r == buildSingle(shape, inv)
             IN  IF r.err # NoError THEN BuildThrow(r)
                 ELSE [isArray |-> FALSE, value |-> r.data, inv |-> r.inv, err |-> NoError]
        ELSE LET r == BuildLoop(shape, 0, n, <<>>, inv)
             IN  IF r.err # NoError THEN BuildThrow(r)
                 ELSE [isArray |-> TRUE, value |-> r.entities, inv |-> r.inv, err |-> NoError]

\* the outcome of build: a bare instance or an array of instances
\* returned, or an error thrown
build(shape, count, rnd, inv) ==
  LET n == entitiesCount(count, rnd)
  IN  IF n = 1
        THEN LET r == buildSingle(shape, inv)
             IN  IF r.err # NoError THEN BuildThrow(r)
                 ELSE [isArray |-> FALSE, value |-> r.data, inv |-> r.inv, err |-> NoError]
        ELSE LET r == BuildLoop(shape, 0, n, <<>>, inv)
             IN  IF r.err # NoError THEN BuildThrow(r)
                 ELSE [isArray |-> TRUE, value |-> r.entities, inv |-> r.inv, err |-> NoError]

(* --------------------------- transformations --------------------------- *)
\* the constructor keeping the object it is given: this._shape = shape
NewBuilderAliased(shape) == [shape |-> shape, own |-> FALSE]

\* new Builder(shape): this._shape = { ...shape }, an object of the
\* builder's own that holds the entries shape has at that moment
NewBuilder(shape) == [shape |-> SpreadInto(<<>>, shape), own |-> TRUE]

\* allocation of a Builder object: the heap grows by one, the reference
\* returned is the new object's
Alloc(heap, shape) == [heap |-> Append(heap, NewBuilder(shape)), ret |-> Len(heap) + 1]

\* withValue as the earlier revisions had it: the receiver's shape is
\* assigned in place and the receiver is returned
withValueInPlace(heap, this, prop, value) ==
  [heap |-> [heap EXCEPT ![this].shape = AssignKey(heap[this].shape, prop, WithValueFn(value))],
   ret |-> this]

\* withValue storing the value itself instead of a thunk that returns it
withValueUnwrapped(heap, this, prop, value) ==
  Alloc(heap, AssignKey(heap[this].shape, prop, value))

withValue(heap, this, prop, value) ==
  LET newShape == AssignKey(heap[this].shape, prop, WithValueFn(value))
  IN  Alloc(heap, newShape)

\* setConditionalValue with the two branches exchanged
setConditionalValueSwapped(heap, this, prop, condition, trueValue, falseValue) ==
  Alloc(heap, AssignKey(heap[this].shape, prop,
                        ConditionalFn(condition, falseValue, trueValue)))

setConditionalValue(heap, this, prop, condition, trueValue, falseValue) ==
  LET newShape == AssignKey(heap[this].shape, prop,
                            ConditionalFn(condition, trueValue, falseValue))
  IN  Alloc(heap, newShape)

\* applyDefaultValues as the earlier revision had it: { ...defaults, ...this._shape }
applyDefaultValuesUnder(heap, this, defaults) ==
  Alloc(heap, SpreadInto(SpreadInto(<<>>, defaults), heap[this].shape))

\* applyDefaultValues assigning only the keys the shape already has
applyDefaultValuesOwnKeys(heap, this, defaults) ==
  Alloc(heap, [i \in 1..Len(heap[this].shape) |->
                 IF HasKey(defaults, heap[this].shape[i].key)
                   THEN Entry(heap[this].shape[i].key,
                              ShapeGet(defaults, heap[this].shape[i].key))
                   ELSE heap[this].shape[i]])

\* applyDefaultValues by Object.assign(this._shape, defaults): the receiver's
\* shape takes the defaults too
applyDefaultValuesAssign(heap, this, defaults) ==
  Alloc([heap EXCEPT ![this].shape = SpreadInto(heap[this].shape, defaults)],
        SpreadInto(heap[this].shape, defaults))

applyDefaultValues(heap, this, defaults) ==
  LET newShape == SpreadInto(SpreadInto(<<>>, heap[this].shape), defaults)
  IN  Alloc(heap, newShape)

\* mapValue passing the binding itself to mapFn, a thunk left uncalled
mapValueUnresolved(heap, this, prop, mapFn) ==
  Alloc(heap, AssignKey(heap[this].shape, prop,
                        MapValueFn(WithValueFn(ShapeGet(heap[this].shape, prop)), mapFn)))

\* mapValue resolving the binding and applying mapFn when mapValue is
\* called, and binding the result
mapValueEager(heap, this, prop, mapFn) ==
  LET original == ShapeGet(heap[this].shape, prop)
      resolved == ResolveEntry(original, [id \in CountedIds |-> 0])
  IN  Alloc(heap, AssignKey(heap[this].shape, prop,
                            WithValueFn(MapFnBody(mapFn, resolved.val))))

mapValue(heap, this, prop, mapFn) ==
  LET original == ShapeGet(heap[this].shape, prop)
      newShape == AssignKey(heap[this].shape, prop, MapValueFn(original, mapFn))
  IN  Alloc(heap, newShape)

(* ---------------------------- state machine ---------------------------- *)
VARIABLES
  builders,   \* the heap of Builder objects, indexed by identity
  origin,     \* per Builder object, the call that created it
  inv,        \* per counted function of the user, the number of times it has been invoked
  last,       \* the last call made: its receiver, arguments and result
  arg         \* the entries of a shape object the caller keeps a reference to

vars == <<builders, origin, inv, last, arg>>

\* the shape object the caller keeps, as first written: the literal shape
\* of index.spec.ts
CallerShape == <<Entry("id", Num(1)), Entry("name", Num(2))>>

\* the shapes a caller passes to the constructor: the empty shape, the
\* literal and the thunk shapes of index.spec.ts, and a partial shape
ShapeInputs ==
  { <<>>,
    <<Entry("id", Num(1)), Entry("name", Num(2))>>,
    <<Entry("id", UserFn("counter")), Entry("name", UserFn("two"))>>,
    <<Entry("id", Num(1))>> }

\* the defaults a caller passes to applyDefaultValues
DefaultsInputs ==
  { <<Entry("id", Num(2)), Entry("name", UserFn("two"))>>,
    <<Entry("name", UserFn("counter"))>> }

\* the (trueValue, falseValue) pairs a caller passes
ConditionalInputs == {<<UserFn("counter"), Num(1)>>}

\* the count arguments of build; Math.random() is drawn only by a count
\* object with min and max
CountInputs ==
  {<<NoCount, 0>>}
  \cup {<<Num(n), 0>> : n \in 0..MaxCount}
  \cup {<<RangeCount(Num(a), Num(b)), rnd>> :
          <<a, b, rnd>> \in {q \in (0..MaxCount) \X (0..MaxCount) \X (0..(RandDen - 1)) : q[1] <= q[2]}}
  \cup {<<RangeCount(Undefined, Num(MaxCount)), 0>>}

\* the count arguments used where the derived builders are explored
ResolveInputs == {<<NoCount, 0>>, <<Num(0), 0>>, <<Num(MaxCount), 0>>}

Transformations == {"withValue", "setConditionalValue", "applyDefaultValues", "mapValue"}

\* the heap and the provenance after a call that returned r, made as call
Created(r, call) ==
  /\ builders' = r.heap
  /\ origin' = IF r.ret > Len(origin) THEN Append(origin, [call EXCEPT !.ret = r.ret])
               ELSE [origin EXCEPT ![r.ret] = [call EXCEPT !.ret = r.ret]]
  /\ last' = [call EXCEPT !.ret = r.ret]
  /\ UNCHANGED arg

Init ==
  /\ builders = <<>>
  /\ origin = <<>>
  /\ inv = [id \in CountedIds |-> 0]
  /\ last = [op |-> "none"]
  /\ arg = CallerShape

Construct(shape) ==
  /\ Created(Alloc(builders, shape),
             [op |-> "constructor", this |-> 0, ret |-> 0, shape |-> shape,
              held |-> FALSE])
  /\ UNCHANGED inv

\* new Builder(shape) with the shape object the caller keeps
ConstructHeld ==
  /\ Created(Alloc(builders, arg),
             [op |-> "constructor", this |-> 0, ret |-> 0, shape |-> arg,
              held |-> TRUE])
  /\ UNCHANGED inv

\* The caller changes its shape object to newArg.  A builder sees the
\* change only if its _shape is that very object.
MutateArg(newArg, call) ==
  /\ arg' = newArg
  /\ builders' = [b \in DOMAIN builders |->
                    IF origin[b].op = "constructor" /\ origin[b].held /\ ~builders[b].own
                      THEN [builders[b] EXCEPT !.shape = newArg]
                      ELSE builders[b]]
  /\ last' = call
  /\ UNCHANGED <<origin, inv>>

\* shape[prop] = value: a key added or rebound
AssignArg(prop, value) ==
  MutateArg(AssignKey(arg, prop, value), [op |-> "assign", prop |-> prop, value |-> value])

\* delete shape[prop]
DeleteArg(prop) ==
  /\ HasKey(arg, prop)
  /\ MutateArg(SelectSeq(arg, LAMBDA e : e.key # prop), [op |-> "delete", prop |-> prop])

Build(this, count, rnd) ==
  LET r == build(builders[this].shape, count, rnd, inv)
  IN  /\ \A id \in CountedIds : r.inv[id] <= MaxCalls
      /\ inv' = r.inv
      /\ last' = [op |-> "build", this |-> this, count |-> count, rnd |-> rnd,
                  isArray |-> r.isArray, value |-> r.value, threw |-> r.err,
                  inv0 |-> inv]
      /\ UNCHANGED <<builders, origin, arg>>

WithValue(this, prop, value) ==
  /\ Created(withValue(builders, this, prop, value),
             [op |-> "withValue", this |-> this, ret |-> 0,
              prop |-> prop, value |-> value])
  /\ UNCHANGED inv

SetConditionalValue(this, prop, condition, trueValue, falseValue) ==
  /\ Created(setConditionalValue(builders, this, prop, condition, trueValue, falseValue),
             [op |-> "setConditionalValue", this |-> this, ret |-> 0,
              prop |-> prop, condition |-> condition,
              trueValue |-> trueValue, falseValue |-> falseValue])
  /\ UNCHANGED inv

ApplyDefaultValues(this, defaults) ==
  /\ Created(applyDefaultValues(builders, this, defaults),
             [op |-> "applyDefaultValues", this |-> this, ret |-> 0,
              defaults |-> defaults])
  /\ UNCHANGED inv

MapValue(this, prop, mapFn) ==
  /\ Created(mapValue(builders, this, prop, mapFn),
             [op |-> "mapValue", this |-> this, ret |-> 0,
              prop |-> prop, mapFn |-> mapFn])
  /\ UNCHANGED inv

Transform ==
  \/ \E this \in DOMAIN builders, prop \in Keys, value \in ArgValues :
       WithValue(this, prop, value)
  \/ \E this \in DOMAIN builders, prop \in Keys, condition \in BOOLEAN,
        tf \in ConditionalInputs :
       SetConditionalValue(this, prop, condition, tf[1], tf[2])
  \/ \E this \in DOMAIN builders, defaults \in DefaultsInputs :
       ApplyDefaultValues(this, defaults)
  \/ \E this \in DOMAIN builders, prop \in Keys, mapFn \in MapFnIds :
       MapValue(this, prop, mapFn)

\* the builders a caller constructs and derives, each resolved at will;
\* the heap holds at most MaxBuilders of them
Next ==
  \/ \E shape \in ShapeInputs : Len(builders) < MaxBuilders /\ Construct(shape)
  \/ Len(builders) < MaxBuilders /\ Transform
  \/ \E this \in DOMAIN builders, c \in ResolveInputs : Build(this, c[1], c[2])

Spec == Init /\ [][Next]_vars

\* every count argument of build, on a constructed builder and on a builder
\* derived from it
NextBuild ==
  \/ \E shape \in ShapeInputs : Len(builders) = 0 /\ Construct(shape)
  \/ Len(builders) = 1 /\ Transform
  \/ \E this \in DOMAIN builders, c \in CountInputs : Build(this, c[1], c[2])

SpecBuild == Init /\ [][NextBuild]_vars

\* shapes with a thunk that throws, after or before a thunk that counts
ThrowingShapeInputs ==
  { <<Entry("id", UserFn("counter")), Entry("name", UserFn("boom"))>>,
    <<Entry("id", UserFn("boom")), Entry("name", UserFn("counter"))>>,
    <<Entry("id", Num(1)), Entry("name", UserFn("counter"))>> }

\* builds of shapes whose thunks throw, of builders derived from them, and
\* of builders whose mapFn throws
NextThrow ==
  \/ \E shape \in ThrowingShapeInputs : Len(builders) = 0 /\ Construct(shape)
  \/ Len(builders) = 1 /\ Transform
  \/ \E this \in DOMAIN builders, prop \in Keys, mapFn \in ThrowingMapFnIds :
       Len(builders) = 1 /\ MapValue(this, prop, mapFn)
  \/ \E this \in DOMAIN builders, c \in CountInputs : Build(this, c[1], c[2])

SpecThrow == Init /\ [][NextThrow]_vars

\* an ancestor and two builders derived from it, or one from the other,
\* each transformed and resolved in any order
NextSiblings ==
  \/ \E shape \in ShapeInputs : Len(builders) = 0 /\ Construct(shape)
  \/ Len(builders) \in {1, 2} /\ Transform
  \/ \E this \in DOMAIN builders, c \in ResolveInputs : Build(this, c[1], c[2])

SpecSiblings == Init /\ [][NextSiblings]_vars

\* a builder constructed from the shape object the caller keeps, the
\* caller changing that object afterwards, and the builder transformed and
\* resolved
NextCaller ==
  \/ Len(builders) = 0 /\ ConstructHeld
  \/ Len(builders) = 1 /\ Transform
  \/ \E prop \in Keys, value \in ArgValues : Len(builders) > 0 /\ AssignArg(prop, value)
  \/ \E prop \in Keys : Len(builders) > 0 /\ DeleteArg(prop)
  \/ \E this \in DOMAIN builders, c \in ResolveInputs : Build(this, c[1], c[2])

SpecCaller == Init /\ [][NextCaller]_vars

(* ------------------------------- claims -------------------------------- *)
\* the value the binding of key k in shape yields when resolved with the
\* thunk state inv
ResolveKey(shape, k) == ResolveEntry(ShapeGet(shape, k), inv).val

\* the instance a builder resolves to with the thunk state inv
Resolve(b) == buildSingle(builders[b].shape, inv).data

\* the instances a build call returned, as a sequence
Instances(call) == IF call.isArray THEN call.value ELSE <<call.value>>

\* C1: a transformation returns a new Builder, distinct from its receiver,
\* and no call changes the shape of a builder that exists: every builder
\* keeps its key set and its bindings, and resolves as it did before.
C1_Step ==
  /\ \A b \in DOMAIN builders :
       /\ b \in DOMAIN builders'
       /\ builders'[b] = builders[b]
       /\ ShapeKeys(builders'[b].shape) = ShapeKeys(builders[b].shape)
       /\ buildSingle(builders'[b].shape, inv) = buildSingle(builders[b].shape, inv)
  /\ last'.op \in Transformations =>
       /\ last'.ret # last'.this
       /\ last'.ret \notin DOMAIN builders
       /\ last'.ret \in DOMAIN builders'

C2_DefaultsNeverOverride ==
  \A b \in DOMAIN builders :
    origin[b].op = "applyDefaultValues" =>
      \A k \in ShapeKeys(builders[origin[b].this].shape) \cap ShapeKeys(origin[b].defaults) :
        ResolveKey(builders[b].shape, k) = ResolveKey(builders[origin[b].this].shape, k)

\* C3: the builder withValue(prop, value) returns resolves prop to value,
\* whatever the receiver held for prop and also when value is a function
\* (returned, not invoked); every other key resolves as in the receiver; a
\* further withValue takes effect too and, on the same key, wins.
C3_WithValue ==
  \A b \in DOMAIN builders :
    origin[b].op = "withValue" =>
      LET o == origin[b]
          S == builders[b].shape
          R == builders[o.this].shape
      IN  /\ ShapeKeys(S) = ShapeKeys(R) \cup {o.prop}
          /\ Resolve(b)[o.prop] = o.value
          /\ ResolveEntry(ShapeGet(S, o.prop), inv).inv = inv
          /\ \A k \in ShapeKeys(S) \ {o.prop} :
               ResolveEntry(ShapeGet(S, k), inv) = ResolveEntry(ShapeGet(R, k), inv)
          /\ (last.op = "build" /\ last.this = b) =>
               \A i \in DOMAIN Instances(last) : Instances(last)[i][o.prop] = o.value
          /\ \A k2 \in Keys, v2 \in ArgValues :
               LET r2 == withValue(builders, b, k2, v2)
                   d2 == buildSingle(r2.heap[r2.ret].shape, inv).data
               IN  /\ d2[k2] = v2
                   /\ k2 # o.prop => d2[o.prop] = o.value

\* withValue bound a function as the value of a key the receiver bound to
\* a thunk, and the returned builder was resolved
C3_Witness ==
  \E b \in DOMAIN builders :
    /\ origin[b].op = "withValue"
    /\ IsFunction(origin[b].value)
    /\ IsFunction(ShapeGet(builders[origin[b].this].shape, origin[b].prop))
    /\ last.op = "build"
    /\ last.this = b
    /\ ~last.isArray
    /\ last.value[origin[b].prop] = origin[b].value

\* the shape of the receiver of the last call
LastShape == builders[last.this].shape

\* the count object of the last build call has integers 0 <= min <= max
LastIsRange ==
  /\ last.op = "build"
  /\ last.count.t = "object"
  /\ last.count.min # Undefined
  /\ last.count.max # Undefined
  /\ 0 <= last.count.min.n
  /\ last.count.min.n <= last.count.max.n

\* the thunk state after i resolutions of shape, each by buildSingle
RECURSIVE AfterPasses(_, _, _)
AfterPasses(shape, inv0, i) ==
  IF i = 0 THEN inv0 ELSE buildSingle(shape, AfterPasses(shape, inv0, i - 1)).inv

\* C4: build() and build(1) both return one resolved instance with no
\* array wrapper, and the two results have the same keys and values.
C4_SingleInstance ==
  /\ (last.op = "build" /\ last.count \in {NoCount, Num(1)}) =>
       /\ ~last.isArray
       /\ DOMAIN last.value = ShapeKeys(LastShape)
       /\ last.value = buildSingle(LastShape, last.inv0).data
  /\ \A b \in DOMAIN builders :
       /\ ~build(builders[b].shape, Num(1), 0, inv).isArray
       /\ build(builders[b].shape, Num(1), 0, inv) = build(builders[b].shape, NoCount, 0, inv)

\* build(1) returned on a builder with keys
C4_Witness ==
  /\ last.op = "build"
  /\ last.count = Num(1)
  /\ ~last.isArray
  /\ DOMAIN last.value = Keys

\* C5: for an integer n >= 2, build(n) returns a sequence of exactly n
\* instances, each with every key of the shape and each resolved by its own
\* pass over the shape, in order.
C5_BuildN ==
  (last.op = "build" /\ last.count.t = "num" /\ last.count.n >= 2) =>
    /\ last.isArray
    /\ Len(last.value) = last.count.n
    /\ \A i \in 1..last.count.n :
         /\ DOMAIN last.value[i] = ShapeKeys(LastShape)
         /\ last.value[i] = buildSingle(LastShape, AfterPasses(LastShape, last.inv0, i - 1)).data
    /\ inv = AfterPasses(LastShape, last.inv0, last.count.n)

\* build(n), n >= 2, returned instances that differ
C5_Witness ==
  /\ last.op = "build"
  /\ last.count.t = "num"
  /\ last.count.n >= 2
  /\ last.isArray
  /\ Len(last.value) = last.count.n
  /\ DOMAIN last.value[1] = Keys
  /\ last.value[1] # last.value[2]

\* C6 (as claimed): for integers 0 <= min <= max, build({min, max}) returns
\* an array, never a bare instance, whose length is between min and max.
C6_RangeIsArray ==
  LastIsRange =>
    /\ last.isArray
    /\ last.count.min.n <= Len(last.value)
    /\ Len(last.value) <= last.count.max.n

\* C7 (as claimed): for an integer m >= 0, build({min: m, max: m}) returns
\* exactly m elements.
C7_MinEqualsMax ==
  (LastIsRange /\ last.count.min.n = last.count.max.n) =>
    /\ last.isArray
    /\ Len(last.value) = last.count.min.n

\* the count of the last build call is 0: build(0), or a range that drew 0
LastCountIsZero ==
  /\ last.op = "build"
  /\ \/ last.count = Num(0)
     \/ LastIsRange /\ last.count.max.n = 0
     \/ LastIsRange /\ getRandomInt(last.count.min.n, last.count.max.n, last.rnd) = 0

\* C8: when the requested count is 0, build returns an empty sequence and
\* invokes no thunk of the shape.
C8_CountZero ==
  LastCountIsZero =>
    /\ last.isArray
    /\ last.value = <<>>
    /\ inv = last.inv0

\* build({min: 0, max: 0}) returned on a shape that binds a stateful thunk
C8_Witness ==
  /\ last.op = "build"
  /\ last.count = RangeCount(Num(0), Num(0))
  /\ \E k \in ShapeKeys(LastShape) : ShapeGet(LastShape, k) = UserFn("counter")
  /\ last.value = <<>>

\* every binding of the shape is a non-callable literal
AllLiterals(shape) == \A i \in 1..Len(shape) : ~IsFunction(shape[i].value)

\* the object that holds each key of the shape with its binding as it is
LiteralObject(shape) == [k \in ShapeKeys(shape) |-> ShapeGet(shape, k)]

\* C9: every resolution yields, for a key bound to a non-callable literal,
\* that literal; build leaves the shapes of the builders as they are; a
\* builder whose bindings are all literals returns, at every build call,
\* instances equal to one another whose keys are the keys of the shape
\* (the empty object for the empty shape).
C9_Step ==
  last'.op = "build" =>
    LET shape == builders[last'.this].shape
    IN  /\ builders' = builders
        /\ \A i \in DOMAIN Instances(last') :
             /\ \A k \in ShapeKeys(shape) :
                  ~IsFunction(ShapeGet(shape, k)) =>
                    /\ k \in DOMAIN Instances(last')[i]
                    /\ Instances(last')[i][k] = ShapeGet(shape, k)
             /\ AllLiterals(shape) =>
                  /\ DOMAIN Instances(last')[i] = ShapeKeys(shape)
                  /\ Instances(last')[i] = LiteralObject(shape)
             /\ shape = <<>> => Instances(last')[i] = EmptyObject

C9_Literals == [][C9_Step]_vars

\* a builder of literals over every key returned several instances
C9_Witness ==
  /\ last.op = "build"
  /\ AllLiterals(LastShape)
  /\ ShapeKeys(LastShape) = Keys
  /\ last.isArray
  /\ Len(last.value) >= 2
  /\ last.value[1] = last.value[2]

\* the number of invocations of the user thunk id that one call of the
\* value makes
RECURSIVE Calls(_, _)
Calls(value, id) ==
  IF ~IsFunction(value) THEN 0
  ELSE IF value.f = "user" THEN (IF value.id = id THEN 1 ELSE 0)
  ELSE IF value.f = "mapValue" THEN Calls(value.original, id)
  ELSE 0

\* the same, for the first p entries of the shape
RECURSIVE CallsUpTo(_, _, _)
CallsUpTo(shape, p, id) ==
  IF p = 0 THEN 0 ELSE CallsUpTo(shape, p - 1, id) + Calls(shape[p].value, id)

\* C10: every thunk binding is invoked once per resolved instance and its
\* result is never reused: a build producing n instances invokes a thunk n
\* times per binding, in instance order and within an instance in key
\* order, so the i-th instance holds the i-th value a counter thunk
\* produced, counted from the state the thunk was in before the call.
C10_ThunkPerInstance ==
  last.op = "build" =>
    LET shape == LastShape
        n == Len(Instances(last))
    IN  \A id \in StatefulIds :
          LET perPass == CallsUpTo(shape, Len(shape), id)
          IN  /\ inv[id] = last.inv0[id] + n * perPass
              /\ \A i \in 1..n, p \in 1..Len(shape) :
                   shape[p].value = UserFn(id) =>
                     Instances(last)[i][shape[p].key] =
                       UserThunkBody(id, last.inv0[id] + (i - 1) * perPass + CallsUpTo(shape, p, id))
              /\ \A i \in 1..n, p \in 1..Len(shape) :
                   shape[p].value = UserFn("two") =>
                     Instances(last)[i][shape[p].key] = UserThunkBody("two", 0)

\* a build of several instances on a counter thunk invoked before
C10_Witness ==
  /\ last.op = "build"
  /\ last.isArray
  /\ Len(last.value) >= 2
  /\ last.inv0["counter"] >= 1
  /\ CallsUpTo(LastShape, Len(LastShape), "counter") = 1
  /\ \E k \in ShapeKeys(LastShape) :
       /\ ShapeGet(LastShape, k) = UserFn("counter")
       /\ last.value[1][k] = Num(last.inv0["counter"] + 1)
       /\ last.value[2][k] = Num(last.inv0["counter"] + 2)

\* the shape of the builder a call r returned
Returned(r) == r.heap[r.ret].shape

\* C11: setConditionalValue(prop, condition, trueValue, falseValue) returns
\* a builder that resolves as the one withValue(prop, condition ?
\* trueValue : falseValue) returns: prop yields trueValue when condition is
\* true and falseValue when it is false, the other keys resolve as in the
\* receiver.
C11_ConditionalIsWithValue ==
  \A b \in DOMAIN builders :
    origin[b].op = "setConditionalValue" =>
      LET o == origin[b]
          S == builders[b].shape
          R == builders[o.this].shape
          chosen == IF o.condition THEN o.trueValue ELSE o.falseValue
          W == Returned(withValue(builders, o.this, o.prop, chosen))
      IN  /\ buildSingle(S, inv) = buildSingle(W, inv)
          /\ ShapeKeys(S) = ShapeKeys(W)
          /\ Resolve(b)[o.prop] = chosen
          /\ o.condition => Resolve(b)[o.prop] = o.trueValue
          /\ ~o.condition => Resolve(b)[o.prop] = o.falseValue
          /\ \A k \in ShapeKeys(S) \ {o.prop} :
               ResolveEntry(ShapeGet(S, k), inv) = ResolveEntry(ShapeGet(R, k), inv)
          /\ (last.op = "build" /\ last.this = b) =>
               \A i \in DOMAIN Instances(last) : Instances(last)[i][o.prop] = chosen

\* a builder made with a false condition was resolved to falseValue
C11_Witness ==
  \E b \in DOMAIN builders :
    /\ origin[b].op = "setConditionalValue"
    /\ ~origin[b].condition
    /\ origin[b].trueValue # origin[b].falseValue
    /\ last.op = "build"
    /\ last.this = b
    /\ ~last.isArray
    /\ last.value[origin[b].prop] = origin[b].falseValue

\* C12: the builder mapValue(k, f) returns resolves k to f(x), x being
\* what the receiver resolves for k (the literal, or what the thunk
\* returns); a further mapValue(k, g) resolves k to g(f(x)); the other
\* keys resolve as in the receiver.
C12_MapValue ==
  \A b \in DOMAIN builders :
    origin[b].op = "mapValue" =>
      LET o == origin[b]
          S == builders[b].shape
          R == builders[o.this].shape
          x == ResolveEntry(ShapeGet(R, o.prop), inv)
      IN  /\ ResolveEntry(ShapeGet(S, o.prop), inv).val = MapFnBody(o.mapFn, x.val)
          /\ ResolveEntry(ShapeGet(S, o.prop), inv).inv =
               [x.inv EXCEPT ![o.mapFn] = @ + 1]
          /\ \A k \in ShapeKeys(S) \ {o.prop} :
               ResolveEntry(ShapeGet(S, k), inv) = ResolveEntry(ShapeGet(R, k), inv)
          /\ \A g \in MapFnIds :
               LET S2 == Returned(mapValue(builders, b, o.prop, g))
               IN  /\ ResolveEntry(ShapeGet(S2, o.prop), inv).val =
                        MapFnBody(g, MapFnBody(o.mapFn, x.val))
                   /\ ResolveEntry(ShapeGet(S2, o.prop), inv).inv =
                        [[x.inv EXCEPT ![o.mapFn] = @ + 1] EXCEPT ![g] = @ + 1]

\* a thunk was mapped and the returned builder resolved to f of a value
\* the thunk produced, which f changes
C12_Witness ==
  \E b \in DOMAIN builders :
    /\ origin[b].op = "mapValue"
    /\ ShapeGet(builders[origin[b].this].shape, origin[b].prop) = UserFn("counter")
    /\ last.op = "build"
    /\ last.this = b
    /\ ~last.isArray
    /\ last.value[origin[b].prop] = MapFnBody(origin[b].mapFn, Num(inv["counter"]))
    /\ last.value[origin[b].prop] # Num(inv["counter"])

\* C13: the builder applyDefaultValues(D) returns has the keys of the
\* shape and the keys of D; a key of D absent from the shape resolves to
\* D's binding (the literal, or what the thunk returns); a key of the shape
\* absent from D resolves as in the receiver.
C13_DefaultsFill ==
  \A b \in DOMAIN builders :
    origin[b].op = "applyDefaultValues" =>
      LET D == origin[b].defaults
          S == builders[b].shape
          R == builders[origin[b].this].shape
      IN  /\ ShapeKeys(S) = ShapeKeys(R) \cup ShapeKeys(D)
          /\ DOMAIN Resolve(b) = ShapeKeys(R) \cup ShapeKeys(D)
          /\ \A k \in ShapeKeys(D) \ ShapeKeys(R) :
               ResolveEntry(ShapeGet(S, k), inv) = ResolveEntry(ShapeGet(D, k), inv)
          /\ \A k \in ShapeKeys(R) \ ShapeKeys(D) :
               ResolveEntry(ShapeGet(S, k), inv) = ResolveEntry(ShapeGet(R, k), inv)

\* defaults with a thunk were applied to a shape that lacks the thunk's key
\* and binds a key the defaults lack, and the returned builder was resolved
C13_Witness ==
  \E b \in DOMAIN builders :
    /\ origin[b].op = "applyDefaultValues"
    /\ \E k \in ShapeKeys(origin[b].defaults) \ ShapeKeys(builders[origin[b].this].shape) :
         IsFunction(ShapeGet(origin[b].defaults, k))
    /\ ShapeKeys(builders[origin[b].this].shape) \ ShapeKeys(origin[b].defaults) # {}
    /\ last.op = "build"
    /\ last.this = b
    /\ ~last.isArray
    /\ DOMAIN last.value = Keys

RECURSIVE Thrower(_)
Thrower(v) ==
  IF ~IsFunction(v) THEN NoError
  ELSE IF v.f = "user" THEN (IF v.id \in ThrowingIds THEN v.id ELSE NoError)
  ELSE IF v.f = "mapValue"
    THEN IF Thrower(v.original) # NoError THEN Thrower(v.original)
         ELSE IF v.mapFn \in ThrowingMapFnIds THEN v.mapFn ELSE NoError
    ELSE NoError

\* the error of the first entry of shape, from index i on, that throws
RECURSIVE ShapeThrower(_, _)
ShapeThrower(shape, i) ==
  IF i > Len(shape) THEN NoError
  ELSE IF Thrower(shape[i].value) # NoError THEN Thrower(shape[i].value)
  ELSE ShapeThrower(shape, i + 1)

\* C15: when a thunk of the shape, or a mapFn installed by mapValue, throws
\* during build, build throws that same error and returns nothing, neither
\* an instance nor a sequence, not even the instances already resolved; no
\* builder's shape changes, so every later build returns what it would
\* have returned had the failed call not been made.  A build whose thunks
\* do not throw, or that resolves no instance, does not throw.
C15_Step ==
  last'.op = "build" =>
    LET shape == builders[last'.this].shape
        n == entitiesCount(last'.count, last'.rnd)
        e == IF n >= 1 THEN ShapeThrower(shape, 1) ELSE NoError
    IN  /\ last'.threw = e
        /\ e # NoError =>
             /\ last'.value = Undefined
             /\ ~last'.isArray
             /\ builders' = builders
             /\ origin' = origin
             /\ \A b \in DOMAIN builders :
                  /\ buildSingle(builders'[b].shape, inv') = buildSingle(builders[b].shape, inv')
                  /\ build(builders'[b].shape, last'.count, last'.rnd, inv') =
                       build(builders[b].shape, last'.count, last'.rnd, inv')
        /\ e = NoError =>
             /\ Len(Instances(last')) = (IF n = 1 THEN 1 ELSE IF n > 0 THEN n ELSE 0)

C15_ThrowPropagates == [][C15_Step]_vars

\* a build of several instances of a derived builder threw the error of
\* its thunk after another thunk of the shape had been invoked
C15_Witness ==
  /\ last.op = "build"
  /\ last.count = Num(MaxCount)
  /\ last.threw \in ThrowingIds
  /\ last.value = Undefined
  /\ origin[last.this].op \in Transformations
  /\ inv["counter"] > last.inv0["counter"]

\* the thunk state before any thunk was invoked
NotInvoked == [id \in CountedIds |-> 0]

\* the shape of builder b as its own derivation chain gives it: the calls
\* that lead from the constructor to b, made on a heap that holds nothing
\* else
RECURSIVE ChainShape(_)
ChainShape(b) ==
  LET o == origin[b]
      heap == <<[shape |-> ChainShape(o.this), own |-> TRUE]>>
  IN  CASE o.op = "constructor" -> Returned(Alloc(<<>>, o.shape))
        [] o.op = "withValue" -> Returned(withValue(heap, 1, o.prop, o.value))
        [] o.op = "setConditionalValue" ->
             Returned(setConditionalValue(heap, 1, o.prop, o.condition,
                                          o.trueValue, o.falseValue))
        [] o.op = "applyDefaultValues" -> Returned(applyDefaultValues(heap, 1, o.defaults))
        [] o.op = "mapValue" -> Returned(mapValue(heap, 1, o.prop, o.mapFn))

\* resolving the shape invokes no stateful thunk
Stateless(shape) == \A id \in StatefulIds : buildSingle(shape, NotInvoked).inv[id] = 0

\* C16: whatever transformations and builds were made, in whatever order,
\* on the builders derived from a common ancestor, each builder's shape is
\* the one its own derivation chain gives, and with stateless thunks it
\* resolves, and every build of it returned, what that chain alone
\* resolves to.
C16_SiblingsIndependent ==
  \A b \in DOMAIN builders :
    /\ builders[b].shape = ChainShape(b)
    /\ buildSingle(builders[b].shape, inv) = buildSingle(ChainShape(b), inv)
    /\ Stateless(ChainShape(b)) =>
         /\ Resolve(b) = buildSingle(ChainShape(b), NotInvoked).data
         /\ (last.op = "build" /\ last.this = b) =>
              \A i \in DOMAIN Instances(last) :
                Instances(last)[i] = buildSingle(ChainShape(b), NotInvoked).data

\* two builders derived from the same ancestor resolve differently, one of
\* them was resolved after the other was derived, and a thunk has been
\* invoked by a build meanwhile
C16_Witness ==
  /\ Len(builders) = 3
  /\ origin[2].op \in Transformations
  /\ origin[3].op \in Transformations
  /\ origin[2].this = 1
  /\ origin[3].this = 1
  /\ Stateless(builders[2].shape)
  /\ Stateless(builders[3].shape)
  /\ Resolve(2) # Resolve(3)
  /\ Resolve(2) # Resolve(1)
  /\ inv # NotInvoked
  /\ last.op = "build"
  /\ last.this = 2
  /\ ~last.isArray
  /\ last.value = Resolve(2)

\* C17: the builder holds a copy of the shape it was constructed with: when
\* the caller adds, removes or rebinds a key of its shape object after
\* new Builder(shape), every builder keeps its key set and its bindings and
\* resolves as before, the constructed builder still holding the entries
\* the object had when it was passed; and no call of a builder changes the
\* caller's object.
C17_Step ==
  /\ last'.op \in {"assign", "delete"} =>
       \A b \in DOMAIN builders :
         /\ builders'[b].shape = builders[b].shape
         /\ ShapeKeys(builders'[b].shape) = ShapeKeys(builders[b].shape)
         /\ buildSingle(builders'[b].shape, inv') = buildSingle(builders[b].shape, inv)
  /\ last'.op \in Transformations \cup {"constructor", "build"} => arg' = arg
  /\ \A b \in DOMAIN builders' :
       origin'[b].op = "constructor" =>
         /\ builders'[b].shape = origin'[b].shape
         /\ (last'.op = "build" /\ last'.this = b /\ ~last'.isArray) =>
              last'.value = buildSingle(origin'[b].shape, inv).data

C17_DefensiveCopy == [][C17_Step]_vars

\* the caller's object was changed after the builder was constructed from
\* it, and the builder then resolved to what the object held when passed
C17_Witness ==
  /\ Len(builders) > 0
  /\ origin[1].op = "constructor"
  /\ origin[1].held
  /\ ShapeKeys(arg) # ShapeKeys(builders[1].shape)
  /\ \E k \in ShapeKeys(arg) : ShapeGet(arg, k) # ShapeGet(builders[1].shape, k)
  /\ last.op = "build"
  /\ last.this = 1
  /\ ~last.isArray
  /\ last.value = buildSingle(CallerShape, inv).data

\* the thunk state in which the p-th entry of the shape is resolved for
\* the i-th instance of the last build call
StateAt(i, p) ==
  [id \in CountedIds |->
     IF id \in StatefulIds
       THEN last.inv0[id] + (i - 1) * CallsUpTo(LastShape, Len(LastShape), id)
                          + CallsUpTo(LastShape, p - 1, id)
       ELSE last.inv0[id]]

\* C18: for every key whose binding in the shape is a function, put there
\* by the constructor, by applyDefaultValues or as the wrapper of a
\* transformation, every instance build returns holds what calling that
\* function with no arguments returned at that point, and never the
\* shape's function itself.
C18_CallableIsThunk ==
  last.op = "build" =>
    \A i \in DOMAIN Instances(last), p \in 1..Len(LastShape) :
      LastShape[p].value.t = "fn" =>
        /\ Instances(last)[i][LastShape[p].key] = Invoke(LastShape[p].value, StateAt(i, p)).val
        /\ Instances(last)[i][LastShape[p].key] # LastShape[p].value

\* a built instance holds the number a thunk of the constructor's shape
\* returned and, for a key set by withValue to a function, that function,
\* which is not the wrapper the shape binds
C18_Witness ==
  /\ last.op = "build"
  /\ ~last.isArray
  /\ origin[last.this].op = "withValue"
  /\ \E k \in ShapeKeys(LastShape) :
       /\ ShapeGet(LastShape, k) = UserFn("counter")
       /\ last.value[k] = Num(inv["counter"])
  /\ \E k \in ShapeKeys(LastShape) :
       /\ IsFunction(last.value[k])
       /\ ShapeGet(LastShape, k) = WithValueFn(last.value[k])

\* The number of invocations of the user's function id that resolving key k
\* of builder b once is to make, by the calls that made b: a thunk of the
\* constructor's shape or of the defaults once, the original of mapValue as
\* before and its mapFn once, the value of withValue and of
\* setConditionalValue never.
RECURSIVE BindingCalls(_, _, _)
BindingCalls(b, k, id) ==
  LET o == origin[b]
  IN  CASE o.op = "constructor" ->
             IF ShapeGet(o.shape, k) = UserFn(id) THEN 1 ELSE 0
        [] o.op \in {"withValue", "setConditionalValue"} ->
             IF k = o.prop THEN 0 ELSE BindingCalls(o.this, k, id)
        [] o.op = "applyDefaultValues" ->
             IF HasKey(o.defaults, k)
               THEN (IF ShapeGet(o.defaults, k) = UserFn(id) THEN 1 ELSE 0)
               ELSE BindingCalls(o.this, k, id)
        [] o.op = "mapValue" ->
             BindingCalls(o.this, k, id) + (IF k = o.prop /\ id = o.mapFn THEN 1 ELSE 0)

\* the same for the keys ks together: the invocations per resolved instance
RECURSIVE InstanceCalls(_, _, _)
InstanceCalls(b, ks, id) ==
  IF ks = {} THEN 0
  ELSE LET k == CHOOSE x \in ks : TRUE
       IN  BindingCalls(b, k, id) + InstanceCalls(b, ks \ {k}, id)

\* C19: the constructor and the four transformations invoke no thunk and
\* no mapFn, so the counts of invocations change in build calls only; a
\* build invokes each thunk of the defaults, and each original thunk and
\* each mapFn captured by mapValue, once per instance it resolves, and none
\* when it resolves no instance.
C19_Step ==
  /\ last'.op \in Transformations \cup {"constructor"} => inv' = inv
  /\ inv' # inv => last'.op = "build"
  /\ last'.op = "build" =>
       \A id \in CountedIds :
         inv'[id] = inv[id] + Len(Instances(last')) * InstanceCalls(last'.this, Keys, id)

C19_Lazy == [][C19_Step]_vars

\* a builder derived by mapValue from a thunk that counts was resolved for
\* the first time, to several instances: the thunk and the mapFn have been
\* invoked once per instance, and not before
C19_Witness ==
  /\ last.op = "build"
  /\ last.isArray
  /\ Len(last.value) >= 2
  /\ origin[last.this].op = "mapValue"
  /\ ShapeGet(builders[origin[last.this].this].shape, origin[last.this].prop) = UserFn("counter")
  /\ last.inv0 = NotInvoked
  /\ inv[origin[last.this].mapFn] = Len(last.value)
  /\ inv["counter"] = Len(last.value)

====
